---------------------------- MODULE Spec2Model ----------------------------
(***************************************************************************)
(* Model of chfs2017-siblings-debt-analysis.py: the head-proxy extraction, *)
(* the join onto the household table, the midpoint resolver, the coalesce  *)
(* loops, the aggregation into total_debt, total_assets and debt_ratio,    *)
(* the winsorization, the control variables and log transforms, the final  *)
(* column selection, the listwise deletion and the saved table.            *)
(*                                                                         *)
(* Conventions                                                             *)
(*   - A column name is the list of its '_'-separated pieces, that is      *)
(*     what Python's name.split('_') returns: 'c2064it_1' is               *)
(*     <<"c2064it", "1">>, 'head_age' is <<"head", "age">>, 'hhid' is      *)
(*     <<"hhid">>.                                                         *)
(*   - A cell is <<>> when it is NaN and <<v>> when it holds the number v. *)
(*   - A data frame is [columns |-> set of names, rows |-> sequence of     *)
(*     functions from its columns to cells].                               *)
(*   - A debt ratio is the pair [num, den] standing for the float          *)
(*     num / (den + 1e-9); np.log(x) is the record [log |-> x].            *)
(***************************************************************************)
EXTENDS Integers, Sequences, FiniteSets, TLC

VARIABLES
    pc,                  \* position of the script
    ind_df,              \* individual table (line 35)
    hh_df,               \* household table (line 33), columns added in place
    heads_df,            \* lines 48-71
    head_info_to_merge,  \* lines 85-86
    coalesced_debt_vars, \* line 301
    coalesced_asset_vars,\* line 320
    interval_code,       \* argument of a direct get_midpoint call
    var_name,            \* argument of a direct get_midpoint call
    midpoint,            \* value returned by that call
    debt_ratio_clean,    \* line 370, the values in index order
    winsorized_values,   \* line 372
    rewinsorized_values, \* winsorize applied to winsorized_values
    final_df,            \* line 438
    final_df_model1,     \* line 480
    final_df_model2,     \* lines 488-490
    output_file          \* the file at output_file_path, None until written

vars == <<pc, ind_df, hh_df, heads_df, head_info_to_merge, coalesced_debt_vars,
          coalesced_asset_vars, interval_code, var_name, midpoint, debt_ratio_clean,
          winsorized_values, rewinsorized_values, final_df, final_df_model1,
          final_df_model2, output_file>>

\* What the steps before the winsorization leave alone.
analysis_vars == <<debt_ratio_clean, winsorized_values, rewinsorized_values,
                   final_df, final_df_model1, final_df_model2, output_file>>

---------------------------------------------------------------------------
(* Cells and names *)

NaN == <<>>

isna(x) == x = NaN

Names(S) == {<<s>> : s \in S}

\* f'{stem}_{i}' for i in range(lo, hi + 1)
Slots(stem, lo, hi) == [i \in 1..(hi - lo + 1) |-> <<stem, ToString(lo + i - 1)>>]

\* The strings of length one that occur as a piece of a name.
OneChar ==
    {"0", "1", "2", "3", "4", "5", "6", "7", "8", "9",
     "a", "b", "c", "d", "e", "f", "g", "h", "i", "j", "k", "l", "m",
     "n", "o", "p", "q", "r", "s", "t", "u", "v", "w", "x", "y", "z"}

Range(s) == {s[i] : i \in 1..Len(s)}

---------------------------------------------------------------------------
(* Asset and debt components, lines 101-130 *)

vehicle_in_business_col == <<"c7062">>

vehicle_in_business_col_it == <<"c7062it">>

all_debt_exact_vars ==
    <<<<"b3005b", "2">>>> \o <<<<"b3031a", "2">>>> \o Slots("c2064", 1, 6)
    \o Slots("c3002a", 1, 6) \o <<<<"c2023e">>>> \o <<<<"c3017ca">>>>
    \o <<<<"c3019c">>>> \o <<<<"c3019e">>>> \o <<<<"c7060">>>> \o <<<<"c7061">>>>
    \o <<<<"c8007">>>> \o <<<<"d3116b">>>> \o <<<<"d9108">>>> \o <<<<"e1006">>>>
    \o <<<<"e1022">>>> \o <<<<"e4003">>>> \o <<<<"e3003c">>>>

all_debt_interval_vars ==
    <<<<"b3031ait", "2">>>> \o Slots("c2064it", 1, 6) \o Slots("c3002ait", 1, 6)
    \o <<<<"c2023eit">>>> \o <<<<"c3017cait">>>> \o <<<<"c3019cit">>>>
    \o <<<<"c3019eit">>>> \o <<<<"c7060it">>>> \o <<<<"c7061it">>>>
    \o <<<<"c8007it">>>> \o <<<<"d9108it">>>> \o <<<<"e1006it">>>>
    \o <<<<"e1022it">>>> \o <<<<"e4003it">>>> \o <<<<"e3003cit">>>>

all_asset_exact_vars ==
    <<<<"b2003d">>>> \o Slots("c2016", 1, 6) \o <<<<"c2023d">>>> \o <<<<"c3019a">>>>
    \o <<<<"c7052b">>>> \o <<<<"c7059">>>> \o <<<<"c7058">>>> \o <<<<"c8002">>>>
    \o <<<<"c8005">>>> \o <<<<"d1105">>>> \o <<<<"d2104">>>> \o <<<<"d3103">>>>
    \o <<<<"d3109">>>> \o <<<<"d3116">>>> \o <<<<"d5107">>>> \o <<<<"d7106h">>>>
    \o <<<<"d7110a">>>> \o Slots("d4103", 1, 5) \o <<<<"d6100a">>>>
    \o <<<<"d8104">>>> \o <<<<"d9103">>>> \o <<<<"d9110a">>>> \o <<<<"k1101">>>>
    \o <<<<"k2102c">>>>

all_asset_interval_vars ==
    <<<<"b2003dit">>>> \o Slots("c2016it", 1, 6) \o <<<<"c2023dit">>>>
    \o <<<<"c3019ait">>>> \o <<<<"c7052bit">>>> \o <<<<"d1105it">>>>
    \o <<<<"d2104it">>>> \o <<<<"d3103it">>>> \o <<<<"d3109it">>>>
    \o <<<<"d3116it">>>> \o <<<<"d5107it">>>> \o <<<<"d7106hit">>>>
    \o <<<<"d7110ait">>>> \o Slots("d4103it", 1, 5) \o <<<<"d6100ait">>>>
    \o <<<<"d8104it">>>> \o <<<<"d9103it">>>> \o <<<<"d9110ait">>>>
    \o <<<<"k1101it">>>> \o <<<<"k2102cit">>>>

---------------------------------------------------------------------------
(* get_midpoint, lines 134-281.  map6 is in half square metres (60.5 is    *)
(* 121), so that every bracket value is an integer; every other table is   *)
(* in yuan as written.                                                     *)

map1 ==
    1 :> 5000 @@ 2 :> 20000 @@ 3 :> 40000 @@ 4 :> 60000 @@ 5 :> 85000 @@ 6 :> 200000 @@
    7 :> 400000 @@ 8 :> 750000 @@ 9 :> 3000000 @@ 10 :> 7500000 @@ 11 :> 15000000
vars_map1 ==
    Names({"b2003ait", "b2050it", "b2059it", "b2063it", "b2080it", "d3109it", "d3110it",
           "d4103it", "d5107it", "d5108it", "d6100ait", "d8104it", "d9103it", "d9110ait",
           "k2102cit", "c3019ait"})

map2 == map1
vars_map2 ==
    Names({"b2003bit", "b2052it"})

map3 ==
    1 :> 5000 @@ 2 :> 15000 @@ 3 :> 35000 @@ 4 :> 75000 @@ 5 :> 150000 @@
    6 :> 250000 @@ 7 :> 400000 @@ 8 :> 750000 @@ 9 :> 1500000 @@ 10 :> 3500000 @@
    11 :> 7500000
vars_map3 ==
    Names({"b2003eit", "b2055it", "a3136it", "d3117it", "b2046it", "b3004bit", "b3005bit",
           "b3005it", "b3006ait", "b3030dit", "b3030eit", "b3031ait", "b3045cit", "b3056ait",
           "c3017cait", "c3019cit", "c3019eit", "c7052bit", "c7060it", "c7061it", "c7062it",
           "c8007it", "d1105it", "d2104it", "d3103it", "d7106hit", "d7110ait", "e1006it",
           "e1022it", "e3003cit", "e4003it", "h2004it", "c2035ait"})

map4 ==
    1 :> 2500 @@ 2 :> 7500 @@ 3 :> 15000 @@ 4 :> 35000 @@ 5 :> 75000 @@ 6 :> 125000 @@
    7 :> 175000 @@ 8 :> 250000 @@ 9 :> 400000 @@ 10 :> 750000 @@ 11 :> 1500000
vars_map4 ==
    Names({"b2093it", "a3136ait", "a3136bit", "a3137it", "b2110it", "d5109it", "d7106jit",
           "d7112it", "d9105it", "d9108it", "d9110bit", "k1101it", "k2208it", "f1010it",
           "f1031it"})

map5 ==
    1 :> 500 @@ 2 :> 1500 @@ 3 :> 3500 @@ 4 :> 7500 @@ 5 :> 15000 @@ 6 :> 35000 @@
    7 :> 75000 @@ 8 :> 150000
vars_map5 ==
    Names({"b3008fit"})

map6 ==
    1 :> 50 @@ 2 :> 121 @@ 3 :> 161 @@ 4 :> 191 @@ 5 :> 221 @@ 6 :> 264 @@ 7 :> 344 @@
    8 :> 600
vars_map6 ==
    Names({"c1000bbit"})

map7 ==
    1 :> 50000 @@ 2 :> 200000 @@ 3 :> 400000 @@ 4 :> 600000 @@ 5 :> 850000 @@
    6 :> 1250000 @@ 7 :> 2250000 @@ 8 :> 4000000 @@ 9 :> 6000000 @@ 10 :> 8500000 @@
    11 :> 12500000 @@ 12 :> 17500000 @@ 13 :> 30000000
vars_map7 ==
    Names({"c1000bdit"})

map8 ==
    1 :> 5000 @@ 2 :> 15000 @@ 3 :> 35000 @@ 4 :> 75000 @@ 5 :> 150000 @@
    6 :> 250000 @@ 7 :> 400000 @@ 8 :> 750000 @@ 9 :> 1500000 @@ 10 :> 3500000 @@
    11 :> 6000000 @@ 12 :> 8500000 @@ 13 :> 12500000 @@ 14 :> 17500000 @@ 15 :> 30000000
vars_map8 ==
    Names({"c2000fit"})

map9 ==
    1 :> 5000 @@ 2 :> 20000 @@ 3 :> 40000 @@ 4 :> 60000 @@ 5 :> 85000 @@ 6 :> 200000 @@
    7 :> 400000 @@ 8 :> 750000 @@ 9 :> 3000000 @@ 10 :> 7500000 @@ 11 :> 12500000 @@
    12 :> 17500000 @@ 13 :> 30000000
vars_map9 ==
    Names({"c2013it", "c2016it"})

map10 ==
    1 :> 50000 @@ 2 :> 150000 @@ 3 :> 350000 @@ 4 :> 650000 @@ 5 :> 900000 @@
    6 :> 1250000 @@ 7 :> 1750000 @@ 8 :> 3500000 @@ 9 :> 6500000 @@ 10 :> 9000000 @@
    11 :> 15000000
vars_map10 ==
    Names({"c2027dit", "c2032it", "c2064it"})

map11 ==
    1 :> 500 @@ 2 :> 2000 @@ 3 :> 4000 @@ 4 :> 6500 @@ 5 :> 9000 @@ 6 :> 12500 @@
    7 :> 17500 @@ 8 :> 25000 @@ 9 :> 40000 @@ 10 :> 75000
vars_map11 ==
    Names({"c2045it"})

map12 ==
    1 :> 25000 @@ 2 :> 75000 @@ 3 :> 150000 @@ 4 :> 250000 @@ 5 :> 400000 @@
    6 :> 650000 @@ 7 :> 900000 @@ 8 :> 1250000 @@ 9 :> 1750000 @@ 10 :> 3500000 @@
    11 :> 7500000
vars_map12 ==
    Names({"c3002it", "c3002ait"})

map13 ==
    1 :> 5000 @@ 2 :> 15000 @@ 3 :> 35000 @@ 4 :> 75000 @@ 5 :> 150000 @@
    6 :> 250000 @@ 7 :> 400000 @@ 8 :> 750000 @@ 9 :> 1500000 @@ 10 :> 3500000 @@
    11 :> 7500000
vars_map13 ==
    Names({"c3024it", "c3025it", "d4111it", "d6116it"})

map14 ==
    1 :> 1000 @@ 2 :> 3500 @@ 3 :> 7500 @@ 4 :> 15000 @@ 5 :> 35000 @@ 6 :> 75000 @@
    7 :> 125000 @@ 8 :> 175000 @@ 9 :> 250000 @@ 10 :> 400000 @@ 11 :> 750000
vars_map14 ==
    Names({"c8002ait", "g1017it", "g1018it", "g1019it", "g1019ait", "g1020it", "c8005ait",
           "f2006it", "f4011it"})

map15 ==
    1 :> 10000 @@ 2 :> 35000 @@ 3 :> 75000 @@ 4 :> 150000 @@ 5 :> 350000 @@
    6 :> 750000 @@ 7 :> 1500000 @@ 8 :> 3500000 @@ 9 :> 7500000 @@ 10 :> 15000000 @@
    11 :> 30000000
vars_map15 ==
    Names({"d8106it"})

map16 ==
    1 :> 5000 @@ 2 :> 15000 @@ 3 :> 35000 @@ 4 :> 75000 @@ 5 :> 150000 @@
    6 :> 250000 @@ 7 :> 400000 @@ 8 :> 750000 @@ 9 :> 1500000 @@ 10 :> 3500000 @@
    11 :> 7500000
vars_map16 ==
    Names({"e3005cit"})

map17 ==
    1 :> 25 @@ 2 :> 75 @@ 3 :> 125 @@ 4 :> 225 @@ 5 :> 400 @@ 6 :> 650 @@ 7 :> 1150 @@
    8 :> 2250 @@ 9 :> 4000 @@ 10 :> 7500 @@ 11 :> 15000 @@ 12 :> 25000 @@
    13 :> 40000 @@ 14 :> 75000
vars_map17 ==
    Names({"f1005it"})

map18 ==
    1 :> 100 @@ 2 :> 250 @@ 3 :> 400 @@ 5 :> 750 @@ 6 :> 1500 @@ 7 :> 2500 @@
    8 :> 4000 @@ 9 :> 6500 @@ 10 :> 11500 @@ 11 :> 17500 @@ 12 :> 30000
vars_map18 ==
    Names({"f4005it"})

map19 ==
    1 :> 500 @@ 2 :> 2000 @@ 3 :> 4000 @@ 5 :> 7500 @@ 6 :> 15000 @@ 7 :> 35000 @@
    8 :> 75000 @@ 9 :> 125000 @@ 10 :> 175000 @@ 11 :> 250000 @@ 12 :> 400000 @@
    13 :> 750000 @@ 14 :> 1500000
vars_map19 ==
    Names({"f4008it"})

map20 ==
    1 :> 250 @@ 2 :> 750 @@ 3 :> 1500 @@ 4 :> 3500 @@ 5 :> 7500 @@ 6 :> 15000 @@
    7 :> 30000
vars_map20 ==
    Names({"h3351it"})

map21 ==
    1 :> 250 @@ 2 :> 750 @@ 3 :> 2000 @@ 4 :> 4000 @@ 5 :> 7500 @@ 6 :> 15000 @@
    7 :> 35000 @@ 8 :> 75000
vars_map21 ==
    Names({"h3354it", "h3356it"})

map22 ==
    1 :> 50 @@ 2 :> 300 @@ 3 :> 750 @@ 4 :> 3000 @@ 5 :> 7500 @@ 6 :> 30000 @@
    7 :> 75000
vars_map22 ==
    Names({"h3367it", "h3368it", "h3369it"})

map23 ==
    1 :> 150 @@ 2 :> 450 @@ 3 :> 800 @@ 4 :> 1250 @@ 5 :> 2250 @@ 6 :> 4500 @@
    7 :> 8000 @@ 8 :> 15000 @@ 9 :> 35000 @@ 10 :> 75000 @@ 11 :> 150000
vars_map23 ==
    Names({"g1024it"})
\* line 150: strip the slot suffix when the name's second-to-last character
\* is '_', that is when it has more than one piece and the last piece is one
\* character long.
base_var_name(name) ==
    IF Len(name) > 1 /\ name[Len(name)] \in OneChar THEN <<name[1]>> ELSE name

\* Faulty variant of MapGet: dict.get(interval_code, 0).
MapGet_default_zero(map, code) ==
    IF code[1] \in DOMAIN map THEN <<map[code[1]]>> ELSE <<0>>

\* dict.get(interval_code, np.nan)
MapGet(map, code) == IF code[1] \in DOMAIN map THEN <<map[code[1]]>> ELSE NaN

get_midpoint(code, name) ==
    IF isna(code) THEN NaN
    ELSE LET b == base_var_name(name) IN
         CASE b \in vars_map1 -> MapGet(map1, code)
           [] b \in vars_map2 -> MapGet(map2, code)
           [] b \in vars_map3 -> MapGet(map3, code)
           [] b \in vars_map4 -> MapGet(map4, code)
           [] b \in vars_map5 -> MapGet(map5, code)
           [] b \in vars_map6 -> MapGet(map6, code)
           [] b \in vars_map7 -> MapGet(map7, code)
           [] b \in vars_map8 -> MapGet(map8, code)
           [] b \in vars_map9 -> MapGet(map9, code)
           [] b \in vars_map10 -> MapGet(map10, code)
           [] b \in vars_map11 -> MapGet(map11, code)
           [] b \in vars_map12 -> MapGet(map12, code)
           [] b \in vars_map13 -> MapGet(map13, code)
           [] b \in vars_map14 -> MapGet(map14, code)
           [] b \in vars_map15 -> MapGet(map15, code)
           [] b \in vars_map16 -> MapGet(map16, code)
           [] b \in vars_map17 -> MapGet(map17, code)
           [] b \in vars_map18 -> MapGet(map18, code)
           [] b \in vars_map19 -> MapGet(map19, code)
           [] b \in vars_map20 -> MapGet(map20, code)
           [] b \in vars_map21 -> MapGet(map21, code)
           [] b \in vars_map22 -> MapGet(map22, code)
           [] b \in vars_map23 -> MapGet(map23, code)
           [] OTHER -> NaN

---------------------------------------------------------------------------
(* Data frame helpers (the pandas operations the script uses) *)

\* df[col] = values: adds or overwrites one column, values[i] going to row i.
SetColumn(df, col, values) ==
    [columns |-> df.columns \cup {col},
     rows |-> [i \in 1..Len(df.rows) |->
                 [c \in df.columns \cup {col} |->
                     IF c = col THEN values[i] ELSE df.rows[i][c]]]]

\* The index set of a frame's rows.
Idx(df) == 1..Len(df.rows)

\* series.fillna(0)
fillna0(x) == IF isna(x) THEN <<0>> ELSE x

\* Faulty variant of combine_first: the midpoint wins whenever there is one.
combine_first_midpoint_wins(x, y) == IF isna(y) THEN x ELSE y

\* exact.combine_first(midpoint_col): the exact cell unless it is NaN.
combine_first(x, y) == IF isna(x) THEN y ELSE x

---------------------------------------------------------------------------
(* Head proxy, lines 42-87 *)

\* Faulty variant of head_relation_var: the check and the filter read the
\* birth year field.
head_relation_var_birth_year == <<"a2005">>

\* line 44
head_relation_var == <<"a2001">>

\* line 55
head_age_of(r) ==
    IF isna(r[<<"a2005">>]) THEN NaN ELSE <<2017 - r[<<"a2005">>][1]>>

\* Faulty variant of AgeFilterKeeps: the age filter left out.
AgeFilterKeeps_everyone(r) == TRUE

\* line 60: NaN >= 16 is False
AgeFilterKeeps(r) ==
    ~isna(r[<<"head", "age">>]) /\ r[<<"head", "age">>][1] >= 16

\* line 70
head_siblings_raw_of(r) ==
    <<fillna0(r[<<"a2028">>])[1] + fillna0(r[<<"a2029">>])[1]>>

\* Faulty variant of head_siblings_of: head_age < 40.
head_siblings_of_below_40(r) ==
    IF ~isna(r[<<"head", "age">>]) /\ r[<<"head", "age">>][1] < 40
    THEN r[<<"head", "siblings", "raw">>] ELSE NaN

\* Faulty variant of head_siblings_of: no age limit.
head_siblings_of_any_age(r) == r[<<"head", "siblings", "raw">>]

\* line 71: NaN <= 40 is False
head_siblings_of(r) ==
    IF ~isna(r[<<"head", "age">>]) /\ r[<<"head", "age">>][1] <= 40
    THEN r[<<"head", "siblings", "raw">>] ELSE NaN

\* lines 74-82, in the order of the dict
head_control_cols_map ==
    << <<<<"hhid">>, <<"hhid">>>>,
       <<<<"head", "age">>, <<"head", "age">>>>,
       <<<<"a2003">>, <<"head", "sex">>>>,
       <<<<"a2012">>, <<"head", "educ">>>>,
       <<<<"a2024">>, <<"head", "marital">>>>,
       <<<<"a2025b">>, <<"head", "health">>>>,
       <<<<"head", "siblings">>, <<"head", "siblings">>>> >>

\* line 83
head_cols_to_select(df) ==
    SelectSeq(head_control_cols_map, LAMBDA kv : kv[1] \in df.columns)

\* line 85: heads_df[head_cols_to_select].rename(columns=final_head_cols_map)
SelectAndRename(df) ==
    LET sel == head_cols_to_select(df)
        new == {sel[k][2] : k \in 1..Len(sel)}
        old(c) == (CHOOSE k \in 1..Len(sel) : sel[k][2] = c)
    IN [columns |-> new,
        rows |-> [i \in 1..Len(df.rows) |->
                    [c \in new |-> df.rows[i][sel[old(c)][1]]]]]

\* Faulty variant of drop_duplicates_hhid: keep='last'.
drop_duplicates_hhid_keep_last(df) ==
    LET last(i) == \A j \in (i + 1)..Len(df.rows) :
                       df.rows[j][<<"hhid">>] # df.rows[i][<<"hhid">>]
    IN [columns |-> df.columns,
        rows |-> SelectSeq(df.rows,
                     LAMBDA r : \E i \in 1..Len(df.rows) : df.rows[i] = r /\ last(i))]

\* Faulty variant of drop_duplicates_hhid: no deduplication.
drop_duplicates_hhid_none(df) == df

\* line 86: drop_duplicates(subset=['hhid'], keep='first')
drop_duplicates_hhid(df) ==
    LET first(i) == \A j \in 1..(i - 1) :
                        df.rows[j][<<"hhid">>] # df.rows[i][<<"hhid">>]
        idx == {i \in 1..Len(df.rows) : first(i)}
        RECURSIVE take(_)
        take(i) == IF i > Len(df.rows) THEN <<>>
                   ELSE (IF i \in idx THEN <<df.rows[i]>> ELSE <<>>) \o take(i + 1)
    IN [columns |-> df.columns, rows |-> take(1)]

\* line 92: pd.merge(left, right, on='hhid', how='left'): every left row once
\* per right row with its hhid, or once with the right columns NaN when there
\* is none; rows in the order of the left frame.
merge_left_on_hhid(left, right) ==
    LET cols == left.columns \cup right.columns
        join(l, r) == [c \in cols |-> IF c \in left.columns THEN l[c] ELSE r[c]]
        alone(l) == [c \in cols |-> IF c \in left.columns THEN l[c] ELSE NaN]
        matches(l) == SelectSeq(right.rows,
                                LAMBDA r : r[<<"hhid">>] = l[<<"hhid">>])
        expand(l) == IF matches(l) = <<>> THEN <<alone(l)>>
                     ELSE [k \in 1..Len(matches(l)) |-> join(l, matches(l)[k])]
        RECURSIVE rows(_)
        rows(i) == IF i > Len(left.rows) THEN <<>>
                   ELSE expand(left.rows[i]) \o rows(i + 1)
    IN [columns |-> cols, rows |-> rows(1)]

---------------------------------------------------------------------------
(* Coalescing and aggregation, lines 288-365 *)

\* lines 289-291
all_vars_needed ==
    Range(all_debt_exact_vars) \cup Range(all_debt_interval_vars)
    \cup Range(all_asset_exact_vars) \cup Range(all_asset_interval_vars)
    \cup {vehicle_in_business_col, vehicle_in_business_col_it}

\* lines 293-296: every needed column the table lacks is created as NaN.
synthesize_missing(df) ==
    [columns |-> df.columns \cup all_vars_needed,
     rows |-> [i \in 1..Len(df.rows) |->
                 [c \in df.columns \cup all_vars_needed |->
                     IF c \in df.columns THEN df.rows[i][c] ELSE NaN]]]

None == <<>>

\* Faulty variant of val_col: the coalesced value is written into the exact
\* column itself.
val_col_in_place(exact) == exact

\* f"{exact}_val"
val_col(exact) == exact \o <<"val">>

\* lines 304 and 323: the interval field at the same list index (Python's
\* index i is i - 1 here), None past the end of the interval list.
interval_at(interval_vars, i) ==
    IF i <= Len(interval_vars) THEN interval_vars[i] ELSE None

\* lines 311-315 and 330-334: one coalesced cell.
coalesce_cell(row, columns, exact, interval) ==
    IF interval # None /\ interval \in columns
    THEN combine_first(row[exact], get_midpoint(row[interval], interval))
    ELSE row[exact]

\* The loops of lines 302-317 and 321-336.  Iteration i writes the new column
\* f"{exact}_val" and reads only the exact and interval columns, which no
\* iteration writes, so the iterations are computed side by side: every val
\* column from the table as it was before the loop.  The result is the table
\* and the list of val columns appended at lines 317 and 336.
coalesce_loop(df, exact_vars, interval_vars) ==
    LET n == Len(exact_vars)
        vals == {val_col(exact_vars[i]) : i \in 1..n}
        idx(c) == CHOOSE i \in 1..n : val_col(exact_vars[i]) = c
        cell(row, i) ==
            IF exact_vars[i] \notin df.columns THEN NaN
            ELSE coalesce_cell(row, df.columns, exact_vars[i],
                               interval_at(interval_vars, i))
        appended == SelectSeq([i \in 1..n |-> exact_vars[i]],
                              LAMBDA e : e \in df.columns)
    IN [df |-> [columns |-> df.columns \cup vals,
                rows |-> [k \in 1..Len(df.rows) |->
                            [c \in df.columns \cup vals |->
                                IF c \in vals THEN cell(df.rows[k], idx(c))
                                ELSE df.rows[k][c]]]],
        coalesced |-> [i \in 1..Len(appended) |-> val_col(appended[i])]]

vehicle_adj_val_col == val_col(vehicle_in_business_col)

\* lines 340-346
vehicle_adjust(df) ==
    IF vehicle_in_business_col \in df.columns
       /\ vehicle_in_business_col_it \in df.columns
    THEN SetColumn(df, vehicle_adj_val_col,
             [i \in Idx(df) |->
                 combine_first(df.rows[i][vehicle_in_business_col],
                     get_midpoint(df.rows[i][vehicle_in_business_col_it],
                                  vehicle_in_business_col_it))])
    ELSE IF vehicle_in_business_col \in df.columns
    THEN SetColumn(df, vehicle_adj_val_col,
             [i \in Idx(df) |-> df.rows[i][vehicle_in_business_col]])
    ELSE SetColumn(df, vehicle_adj_val_col, [i \in Idx(df) |-> <<0>>])

\* hh_df[cols].fillna(0).sum(axis=1) for one row
RECURSIVE row_sum(_, _, _)
row_sum(row, cols, i) ==
    IF i > Len(cols) THEN 0
    ELSE fillna0(row[cols[i]])[1] + row_sum(row, cols, i + 1)

\* lines 349-350
valid_coalesced(coalesced, df) == SelectSeq(coalesced, LAMBDA c : c \in df.columns)

\* line 355
vehicle_adjustment(row, columns) ==
    IF vehicle_adj_val_col \in columns THEN fillna0(row[vehicle_adj_val_col])[1] ELSE 0

\* Faulty variant of max0: no floor.
max0_no_floor(x) == x

max0(x) == IF x > 0 THEN x ELSE 0

\* lines 352-357
add_totals(df, debt_cols, asset_cols) ==
    LET d1 == SetColumn(df, <<"total", "debt">>,
                  [i \in Idx(df) |->
                      <<row_sum(df.rows[i], valid_coalesced(debt_cols, df), 1)>>])
        d2 == SetColumn(d1, <<"total", "assets", "raw">>,
                  [i \in Idx(df) |->
                      <<row_sum(df.rows[i], valid_coalesced(asset_cols, df), 1)>>])
        d3 == SetColumn(d2, <<"total", "assets">>,
                  [i \in Idx(df) |->
                      <<d2.rows[i][<<"total", "assets", "raw">>][1]
                        - vehicle_adjustment(d2.rows[i], d2.columns)>>])
    IN SetColumn(d3, <<"total", "assets">>,
           [i \in Idx(df) |-> <<max0(d3.rows[i][<<"total", "assets">>][1])>>])

\* A debt ratio [num, den] stands for the float num / (den + epsilon), with
\* epsilon = 1e-9 (line 362); den >= 0, so the value is finite, its sign is
\* the sign of num, and it is 0 exactly when num = 0.
ratio_zero == [num |-> 0, den |-> 0]

\* line 363
ratio_div(total_debt, total_assets) ==
    IF total_debt = 0 THEN ratio_zero ELSE [num |-> total_debt, den |-> total_assets]

\* Faulty variant of debt_ratio_of: line 365 left out.
debt_ratio_of_no_nan(r) ==
    <<ratio_div(r[<<"total", "debt">>][1], r[<<"total", "assets">>][1])>>

\* lines 363-365, in the order of the three assignments
debt_ratio_of(r) ==
    LET total_debt == r[<<"total", "debt">>][1]
        total_assets == r[<<"total", "assets">>][1]
        r363 == <<ratio_div(total_debt, total_assets)>>
        r364 == IF total_debt = 0 /\ total_assets = 0 THEN <<ratio_zero>> ELSE r363
    IN IF total_debt > 0 /\ total_assets = 0 THEN NaN ELSE r364

---------------------------------------------------------------------------
(* Winsorization, lines 369-377 *)

\* a < b for two debt ratios: num_a / (den_a + epsilon) < num_b / (den_b +
\* epsilon), that is num_a * den_b + epsilon * num_a < num_b * den_a +
\* epsilon * num_b, decided by the integer parts and, when they tie, by the
\* epsilon parts.
ratio_lt(a, b) ==
    /\ a # b
    /\ \/ a.num * b.den < b.num * a.den
       \/ a.num * b.den = b.num * a.den /\ a.num < b.num

\* limits=[0.01, 0.01] (line 372), in hundredths.
limits == <<1, 1>>

\* int(limit * n) of scipy's winsorize, the number of values cut from a tail.
tail_count(limit, n) == (limit * n) \div 100

\* a[idx[j]] for idx = a.argsort(): the value at place j (counted from 0) of
\* a in ascending order.
sorted_at(a, j) ==
    CHOOSE v \in Range(a) :
        /\ Cardinality({i \in DOMAIN a : ratio_lt(a[i], v)}) <= j
        /\ j < Cardinality({i \in DOMAIN a : ~ratio_lt(v, a[i])})

\* Faulty variant of winsorize: the smallest value is raised to the next
\* larger one and the largest lowered to the next smaller one, whatever n.
winsorize_clip_extremes(a) ==
    LET vals == Range(a)
        min == CHOOSE v \in vals : \A w \in vals : ~ratio_lt(w, v)
        max == CHOOSE v \in vals : \A w \in vals : ~ratio_lt(v, w)
        inner == vals \ {min, max}
        low == IF inner = {} THEN min
               ELSE CHOOSE v \in inner : \A w \in inner : ~ratio_lt(w, v)
        up == IF inner = {} THEN max
              ELSE CHOOSE v \in inner : \A w \in inner : ~ratio_lt(v, w)
    IN [i \in 1..Len(a) |-> IF a[i] = min THEN low ELSE IF a[i] = max THEN up
                            ELSE a[i]]

\* scipy.stats.mstats.winsorize(a, limits) on a non-empty column without
\* NaN: a[idx[:lowidx]] = a[idx[lowidx]], then a[idx[upidx:]] =
\* a[idx[upidx - 1]].  The lowidx smallest values are the only ones that can
\* lie below a[idx[lowidx]], so the first assignment raises exactly the
\* values below it, and likewise the second lowers the values above
\* a[idx[upidx - 1]], read after the first assignment.
winsorize(a) ==
    LET n == Len(a)
        lowidx == tail_count(limits[1], n)
        upidx == n - tail_count(limits[2], n)
        low == sorted_at(a, lowidx)
        a1 == [i \in 1..n |-> IF ratio_lt(a[i], low) THEN low ELSE a[i]]
        up == sorted_at(a1, upidx - 1)
    IN [i \in 1..n |-> IF ratio_lt(up, a1[i]) THEN up ELSE a1[i]]

\* debt_ratio_clean.index (line 370): the rows whose debt_ratio is not NaN.
\* A ratio num / (den + epsilon) is never infinite, so replace() changes
\* nothing.
clean_index(df) ==
    SelectSeq([i \in Idx(df) |-> i],
              LAMBDA i : ~isna(df.rows[i][<<"debt", "ratio">>]))

\* lines 371-377: the winsorized values go back to their rows by index, the
\* other rows get NaN.
with_debt_ratio_winsorized(df, index, values) ==
    SetColumn(df, <<"debt", "ratio", "winsorized">>,
        [i \in Idx(df) |->
            IF \E k \in 1..Len(index) : index[k] = i
            THEN <<values[CHOOSE k \in 1..Len(index) : index[k] = i]>>
            ELSE NaN])

---------------------------------------------------------------------------
(* Control variables and log transforms, lines 380-423 *)

\* np.where(col == v, 1, 0) or np.where(col.isin(S), 1, 0), then NaN where
\* the column is NaN (lines 383-384, 390-391, 397-398).
indicator(cell, S) ==
    IF isna(cell) THEN NaN ELSE IF cell[1] \in S THEN <<1>> ELSE <<0>>

\* lines 382-408
prepare_controls(df) ==
    LET d1 == SetColumn(df, <<"head", "is", "male">>,
                  [i \in Idx(df) |->
                      IF <<"head", "sex">> \in df.columns
                      THEN indicator(df.rows[i][<<"head", "sex">>], {1})
                      ELSE NaN])
        d2 == SetColumn(d1, <<"head", "is", "married">>,
                  [i \in Idx(df) |->
                      IF <<"head", "marital">> \in df.columns
                      THEN indicator(df.rows[i][<<"head", "marital">>], {2, 3, 7})
                      ELSE NaN])
        d3 == SetColumn(d2, <<"has", "business">>,
                  [i \in Idx(df) |->
                      IF <<"b2000b">> \in df.columns
                      THEN indicator(df.rows[i][<<"b2000b">>], {1})
                      ELSE NaN])
    IN SetColumn(d3, <<"num", "houses">>,
           [i \in Idx(df) |->
               IF <<"c2002">> \in df.columns
               THEN fillna0(df.rows[i][<<"c2002">>]) ELSE <<0>>])

\* np.log(x) of a positive x, kept as a term.
np_log(x) == [log |-> x]

\* line 412
log_total_assets_of(r) == <<np_log(r[<<"total", "assets">>][1] + 1)>>

\* line 416: 0.001
small_constant_dv == [num |-> 1, den |-> 1000]

\* line 420, log_input > 0 for log_input = w + small_constant_dv and w =
\* num / (den + epsilon): true when num >= 0, and for num < 0 exactly when
\* small_constant_dv.den * (-num) <= small_constant_dv.num * den.
log_input_positive(w) ==
    \/ w.num >= 0
    \/ small_constant_dv.den * (-w.num) <= small_constant_dv.num * w.den

\* lines 419-420: NaN stays NaN, a log_input <= 0 becomes NaN.
log_debt_ratio_winsorized_of(r) ==
    LET w == r[<<"debt", "ratio", "winsorized">>]
    IN IF isna(w) \/ ~log_input_positive(w[1]) THEN NaN
       ELSE <<np_log([ratio |-> w[1], plus |-> small_constant_dv])>>

---------------------------------------------------------------------------
(* Final columns, listwise deletion and the saved table, lines 426-492 and
   677-685 *)

\* line 428
core_vars ==
    << <<"hhid">>, <<"head", "siblings">>, <<"debt", "ratio", "winsorized">>,
       <<"log", "debt", "ratio", "winsorized">>, <<"total", "debt">>,
       <<"total", "assets">> >>

\* line 429
head_controls ==
    << <<"head", "age">>, <<"head", "is", "male">>, <<"head", "educ">>,
       <<"head", "is", "married">>, <<"head", "health">> >>

\* line 430
hh_controls ==
    << <<"has", "business">>, <<"num", "houses">>, <<"log", "total", "assets">> >>

\* line 431
final_analysis_cols == core_vars \o head_controls \o hh_controls

\* lines 433, 476, 480, 488: [col for col in cols if col in df.columns]
existing_cols(cols, df) == SelectSeq(cols, LAMBDA c : c \in df.columns)

\* df[cols].copy()
select_columns(df, cols) ==
    [columns |-> Range(cols),
     rows |-> [i \in Idx(df) |-> [c \in Range(cols) |-> df.rows[i][c]]]]

\* line 475-476
reg_independent_vars(df) ==
    existing_cols(<< <<"head", "siblings">> >> \o head_controls \o hh_controls, df)

\* df.dropna(subset=subset): the rows with no NaN in the subset's columns.
dropna(df, subset) ==
    [columns |-> df.columns,
     rows |-> SelectSeq(df.rows, LAMBDA r : \A c \in Range(subset) : ~isna(r[c]))]

\* np.isfinite (line 490): the log of a positive float is finite, NaN is not.
isfinite(x) == ~isna(x)

\* line 479-480
model1_of(df) ==
    dropna(df, existing_cols(<< <<"debt", "ratio", "winsorized">> >>
                             \o reg_independent_vars(df), df))

\* lines 487-490
model2_of(df) ==
    LET d == dropna(df, existing_cols(<< <<"log", "debt", "ratio", "winsorized">> >>
                                      \o reg_independent_vars(df), df))
    IN IF <<"log", "debt", "ratio", "winsorized">> \in d.columns
       THEN [columns |-> d.columns,
             rows |-> SelectSeq(d.rows,
                          LAMBDA r : isfinite(r[<<"log", "debt", "ratio", "winsorized">>]))]
       ELSE d

---------------------------------------------------------------------------
(* Inputs *)

NumHH == 2      \* household identifiers 1..NumHH
MaxInd == 2     \* rows of the individual table
MaxCode == 1    \* interval codes 0..MaxCode in the household table

ExactVals == {-1000, 0, 1000}

\* birth years: ages 15, 16, 40 and 41 in 2017
BirthYears == {2002, 2001, 1977, 1976}

IndColumns ==
    Names({"hhid", "a2001", "a2005", "a2028", "a2029", "a2003", "a2012", "a2024",
           "a2025b"})

\* Column sets of the individual table: every column, or one or two missing.
IndColumnVariants ==
    {IndColumns} \cup {IndColumns \ Names(S) :
        S \in {{"a2001"}, {"a2005"}, {"a2028"}, {"a2029"}, {"a2028", "a2029"},
               {"a2012"}}}

\* Row i of the individual table: the education code is its position, the
\* other controls are fixed.
IndRow(i, hhid, a2001, a2005, a2028, a2029) ==
    <<"hhid">> :> <<hhid>> @@ <<"a2001">> :> <<a2001>> @@ <<"a2005">> :> a2005
    @@ <<"a2028">> :> a2028 @@ <<"a2029">> :> a2029 @@ <<"a2003">> :> <<1>>
    @@ <<"a2012">> :> <<i>> @@ <<"a2024">> :> <<2>> @@ <<"a2025b">> :> <<3>>

Restrict(f, S) == [x \in S |-> f[x]]

\* Tables of n individuals over households 1..NumHH, relationship codes 1
\* and 2, aged 15 or 40; one brother and no answer for sisters.
IndTables(n) ==
    LET opt == (1..NumHH) \X {1, 2} \X {<<2002>>, <<1977>>}
    IN {[i \in 1..n |-> IndRow(i, o[i][1], o[i][2], o[i][3], <<1>>, NaN)] :
           o \in [1..n -> opt]}

\* A household table of NumHH households with the identifier column only.
BareHouseholds ==
    [columns |-> {<<"hhid">>}, rows |-> [h \in 1..NumHH |-> <<"hhid">> :> <<h>>]]

ExactCols ==
    Range(all_debt_exact_vars) \cup Range(all_asset_exact_vars)
    \cup {vehicle_in_business_col}

IntervalCols ==
    Range(all_debt_interval_vars) \cup Range(all_asset_interval_vars)
    \cup {vehicle_in_business_col_it}

\* The household table of one household holding the given cells, a set of
\* <<column, cell>>, and only their columns.
Household(cells) ==
    LET cols == {<<"hhid">>} \cup {x[1] : x \in cells}
    IN [columns |-> cols,
        rows |-> <<[c \in cols |-> IF c = <<"hhid">> THEN <<1>>
                                   ELSE (CHOOSE x \in cells : x[1] = c)[2]]>>]

ExactCells == ExactCols \X {<<v>> : v \in ExactVals}

IntervalCells == IntervalCols \X {<<c>> : c \in 0..MaxCode}

\* No cell or one cell filled, exact or interval.
OneCellHouseholds ==
    {Household({})} \cup {Household({x}) : x \in ExactCells \cup IntervalCells}

\* The interval field of the same concept: 'c2064_1' -> 'c2064it_1',
\* 'd9108' -> 'd9108it'.
own_interval(exact) == <<exact[1] \o "it">> \o Tail(exact)

\* An exact field with the interval field a coalesce loop reads for it (the
\* one at its place in the interval list) or with the interval field of its
\* own concept.
FieldPairs ==
    LET at(ex, it) == {<<ex[i], it[i]>> : i \in 1..Len(ex) \cap 1..Len(it)}
        own == {<<e, own_interval(e)>> : e \in ExactCols}
    IN at(all_debt_exact_vars, all_debt_interval_vars)
       \cup at(all_asset_exact_vars, all_asset_interval_vars)
       \cup {p \in own : p[2] \in IntervalCols}

\* One exact field holding 1000 and one interval field holding code 1.
TwoCellHouseholds ==
    {Household({<<p[1], <<1000>>>>, <<p[2], <<1>>>>}) : p \in FieldPairs}

\* One debt, one asset and the vehicle-in-business field, each empty or
\* holding any exact value, with or without the vehicle's interval code.
BalanceHouseholds ==
    LET opt == {NaN} \cup {<<v>> : v \in ExactVals}
    IN {Household({<<<<"e1006">>, d>>, <<<<"d1105">>, a>>,
                   <<vehicle_in_business_col, w>>,
                   <<vehicle_in_business_col_it, c>>}) :
           d \in opt, a \in opt, w \in opt, c \in {NaN, <<1>>}}

\* One household whose every exact field holds x and every interval field
\* holds code c; the table holds every catalog column.
FullHouseholds ==
    {[columns |-> {<<"hhid">>} \cup all_vars_needed,
      rows |-> <<[col \in {<<"hhid">>} \cup all_vars_needed |->
                    IF col = <<"hhid">> THEN <<1>>
                    ELSE IF col \in ExactCols THEN x ELSE c]>>] :
        x \in {NaN} \cup {<<v>> : v \in ExactVals},
        c \in {NaN} \cup {<<k>> : k \in 0..MaxCode}}

\* NumHH households with the two fields the household controls read:
\* household 1 runs a business and owns one house, the others run none and
\* gave no house count.
SurveyedHouseholds ==
    [columns |-> Names({"hhid", "b2000b", "c2002"}),
     rows |-> [h \in 1..NumHH |->
                 <<"hhid">> :> <<h>> @@ <<"b2000b">> :> <<IF h = 1 THEN 1 ELSE 2>>
                 @@ <<"c2002">> :> IF h = 1 THEN <<1>> ELSE NaN]]

PopSize == 100   \* households of a population table

\* Balance sheets of a household: the exact debt e1006 and the exact asset
\* d1105, each missing or filled; the debt also negative.
BalanceKinds ==
    {<<NaN, NaN>>, <<<<1000>>, NaN>>, <<<<1000>>, <<1000>>>>, <<<<-1000>>, <<1000>>>>,
     <<NaN, <<1000>>>>}

\* PopSize households: household 1 has one balance sheet, all the others
\* share another (or the same); the business and house answers vary with
\* the identifier.
PopulationHouseholds ==
    {[columns |-> Names({"hhid", "e1006", "d1105", "b2000b", "c2002"}),
      rows |-> [h \in 1..PopSize |->
                  <<"hhid">> :> <<h>>
                  @@ <<"e1006">> :> (IF h = 1 THEN k1[1] ELSE k2[1])
                  @@ <<"d1105">> :> (IF h = 1 THEN k1[2] ELSE k2[2])
                  @@ <<"b2000b">> :> <<1 + (h % 2)>>
                  @@ <<"c2002">> :> (IF h % 3 = 0 THEN NaN ELSE <<h % 3>>)]] :
        k1 \in BalanceKinds, k2 \in BalanceKinds}

\* One respondent aged 30 in household 1.
OneHead ==
    [columns |-> IndColumns,
     rows |-> <<IndRow(1, 1, 1, <<1987>>, <<1>>, <<2>>)>>]

Empty == [columns |-> {}, rows |-> <<>>]

InitRest ==
    /\ pc = "start"
    /\ heads_df = Empty
    /\ head_info_to_merge = Empty
    /\ coalesced_debt_vars = <<>>
    /\ coalesced_asset_vars = <<>>
    /\ interval_code = NaN
    /\ var_name = None
    /\ midpoint = NaN
    /\ debt_ratio_clean = <<>>
    /\ winsorized_values = <<>>
    /\ rewinsorized_values = <<>>
    /\ final_df = Empty
    /\ final_df_model1 = Empty
    /\ final_df_model2 = Empty
    /\ output_file = None

\* The individual table varies, the household table is bare.
InitIndividuals ==
    /\ \E n \in 0..MaxInd : \E t \in IndTables(n) :
           ind_df = [columns |-> IndColumns, rows |-> t]
    /\ hh_df = BareHouseholds

\* One respondent with every birth year and sibling answer, over every
\* column set of the individual table; the household table is bare or
\* holds the fields of the household controls.
InitRespondent ==
    /\ \E cs \in IndColumnVariants :
       \E y \in {NaN} \cup {<<b>> : b \in BirthYears} :
       \E br \in {NaN, <<0>>, <<1>>} : \E si \in {NaN, <<2>>} :
           ind_df = [columns |-> cs,
                     rows |-> <<Restrict(IndRow(1, 1, 1, y, br, si), cs)>>]
    /\ hh_df \in {BareHouseholds, SurveyedHouseholds}

\* The household table varies, the individual table is one respondent.
InitHouseholds ==
    /\ ind_df = OneHead
    /\ hh_df \in OneCellHouseholds \cup TwoCellHouseholds \cup BalanceHouseholds
                \cup FullHouseholds

Init == InitRest /\ (InitIndividuals \/ InitRespondent \/ InitHouseholds)

\* A population of households, the individual table is one respondent.
InitPopulation ==
    /\ ind_df = OneHead
    /\ hh_df \in PopulationHouseholds

InitAnalysis == InitRest /\ (InitPopulation \/ InitRespondent)

---------------------------------------------------------------------------
(* The script, step by step *)

\* lines 45-47: exit() when the relationship code is not a column.
AbortNoRelationVar ==
    /\ pc = "start"
    /\ head_relation_var \notin ind_df.columns
    /\ pc' = "exit"
    /\ UNCHANGED <<ind_df, hh_df, heads_df, head_info_to_merge, coalesced_debt_vars,
                   coalesced_asset_vars, interval_code, var_name, midpoint>>
    /\ UNCHANGED analysis_vars

\* line 48
SelectHeads ==
    /\ pc = "start"
    /\ head_relation_var \in ind_df.columns
    /\ heads_df' = [columns |-> ind_df.columns,
                    rows |-> SelectSeq(ind_df.rows,
                                 LAMBDA r : r[head_relation_var] = <<1>>)]
    /\ pc' = "head_age"
    /\ UNCHANGED <<ind_df, hh_df, head_info_to_merge, coalesced_debt_vars,
                   coalesced_asset_vars, interval_code, var_name, midpoint>>
    /\ UNCHANGED analysis_vars

\* lines 52-54: exit() when the birth year is not a column.
AbortNoBirthYear ==
    /\ pc = "head_age"
    /\ <<"a2005">> \notin heads_df.columns
    /\ pc' = "exit"
    /\ UNCHANGED <<ind_df, hh_df, heads_df, head_info_to_merge, coalesced_debt_vars,
                   coalesced_asset_vars, interval_code, var_name, midpoint>>
    /\ UNCHANGED analysis_vars

\* line 55
ComputeHeadAge ==
    /\ pc = "head_age"
    /\ <<"a2005">> \in heads_df.columns
    /\ heads_df' = SetColumn(heads_df, <<"head", "age">>,
                        [i \in Idx(heads_df) |-> head_age_of(heads_df.rows[i])])
    /\ pc' = "age_filter"
    /\ UNCHANGED <<ind_df, hh_df, head_info_to_merge, coalesced_debt_vars,
                   coalesced_asset_vars, interval_code, var_name, midpoint>>
    /\ UNCHANGED analysis_vars

\* lines 59-63
AgeFilter ==
    /\ pc = "age_filter"
    /\ heads_df' = [columns |-> heads_df.columns,
                    rows |-> SelectSeq(heads_df.rows, AgeFilterKeeps)]
    /\ pc' = "siblings"
    /\ UNCHANGED <<ind_df, hh_df, head_info_to_merge, coalesced_debt_vars,
                   coalesced_asset_vars, interval_code, var_name, midpoint>>
    /\ UNCHANGED analysis_vars

\* lines 68-71
with_sibling_columns(df) ==
    LET d1 == IF <<"a2028">> \notin df.columns
              THEN SetColumn(df, <<"a2028">>, [i \in Idx(df) |-> <<0>>]) ELSE df
        d2 == IF <<"a2029">> \notin d1.columns
              THEN SetColumn(d1, <<"a2029">>, [i \in Idx(df) |-> <<0>>]) ELSE d1
        d3 == SetColumn(d2, <<"head", "siblings", "raw">>,
                  [i \in Idx(df) |-> head_siblings_raw_of(d2.rows[i])])
    IN SetColumn(d3, <<"head", "siblings">>,
           [i \in Idx(df) |-> head_siblings_of(d3.rows[i])])

ComputeSiblings ==
    /\ pc = "siblings"
    /\ heads_df' = with_sibling_columns(heads_df)
    /\ pc' = "select"
    /\ UNCHANGED <<ind_df, hh_df, head_info_to_merge, coalesced_debt_vars,
                   coalesced_asset_vars, interval_code, var_name, midpoint>>
    /\ UNCHANGED analysis_vars

\* lines 83-86
SelectHeadInfo ==
    /\ pc = "select"
    /\ head_info_to_merge' = drop_duplicates_hhid(SelectAndRename(heads_df))
    /\ pc' = "merge"
    /\ UNCHANGED <<ind_df, hh_df, heads_df, coalesced_debt_vars,
                   coalesced_asset_vars, interval_code, var_name, midpoint>>
    /\ UNCHANGED analysis_vars

\* lines 91-94
MergeHeadInfo ==
    /\ pc = "merge"
    /\ hh_df' = merge_left_on_hhid(hh_df, head_info_to_merge)
    /\ pc' = "synthesize"
    /\ UNCHANGED <<ind_df, heads_df, head_info_to_merge, coalesced_debt_vars,
                   coalesced_asset_vars, interval_code, var_name, midpoint>>
    /\ UNCHANGED analysis_vars

\* lines 289-297
SynthesizeMissingCols ==
    /\ pc = "synthesize"
    /\ hh_df' = synthesize_missing(hh_df)
    /\ pc' = "coalesce_debt"
    /\ UNCHANGED <<ind_df, heads_df, head_info_to_merge, coalesced_debt_vars,
                   coalesced_asset_vars, interval_code, var_name, midpoint>>
    /\ UNCHANGED analysis_vars

\* lines 301-317
CoalesceDebt ==
    /\ pc = "coalesce_debt"
    /\ LET st == coalesce_loop(hh_df, all_debt_exact_vars, all_debt_interval_vars)
       IN /\ hh_df' = st.df
          /\ coalesced_debt_vars' = st.coalesced
    /\ pc' = "coalesce_asset"
    /\ UNCHANGED <<ind_df, heads_df, head_info_to_merge, coalesced_asset_vars,
                   interval_code, var_name, midpoint>>
    /\ UNCHANGED analysis_vars

\* lines 320-336
CoalesceAsset ==
    /\ pc = "coalesce_asset"
    /\ LET st == coalesce_loop(hh_df, all_asset_exact_vars, all_asset_interval_vars)
       IN /\ hh_df' = st.df
          /\ coalesced_asset_vars' = st.coalesced
    /\ pc' = "vehicle"
    /\ UNCHANGED <<ind_df, heads_df, head_info_to_merge, coalesced_debt_vars,
                   interval_code, var_name, midpoint>>
    /\ UNCHANGED analysis_vars

\* lines 339-346
VehicleAdjust ==
    /\ pc = "vehicle"
    /\ hh_df' = vehicle_adjust(hh_df)
    /\ pc' = "totals"
    /\ UNCHANGED <<ind_df, heads_df, head_info_to_merge, coalesced_debt_vars,
                   coalesced_asset_vars, interval_code, var_name, midpoint>>
    /\ UNCHANGED analysis_vars

\* lines 349-357
ComputeTotals ==
    /\ pc = "totals"
    /\ hh_df' = add_totals(hh_df, coalesced_debt_vars, coalesced_asset_vars)
    /\ pc' = "debt_ratio"
    /\ UNCHANGED <<ind_df, heads_df, head_info_to_merge, coalesced_debt_vars,
                   coalesced_asset_vars, interval_code, var_name, midpoint>>
    /\ UNCHANGED analysis_vars

\* lines 362-365
ComputeDebtRatio ==
    /\ pc = "debt_ratio"
    /\ hh_df' = SetColumn(hh_df, <<"debt", "ratio">>,
                     [i \in Idx(hh_df) |-> debt_ratio_of(hh_df.rows[i])])
    /\ pc' = "winsorize"
    /\ UNCHANGED <<ind_df, heads_df, head_info_to_merge, coalesced_debt_vars,
                   coalesced_asset_vars, interval_code, var_name, midpoint>>
    /\ UNCHANGED analysis_vars

\* What the steps after the debt ratio leave alone.
load_vars == <<ind_df, heads_df, head_info_to_merge, coalesced_debt_vars,
               coalesced_asset_vars, interval_code, var_name, midpoint>>

\* lines 370-377
Winsorize ==
    /\ pc = "winsorize"
    /\ LET index == clean_index(hh_df)
           clean == [k \in 1..Len(index) |->
                        hh_df.rows[index[k]][<<"debt", "ratio">>][1]]
       IN /\ debt_ratio_clean' = clean
          /\ IF clean # <<>>
             THEN /\ winsorized_values' = winsorize(clean)
                  /\ hh_df' = with_debt_ratio_winsorized(hh_df, index,
                                                         winsorize(clean))
             ELSE /\ UNCHANGED winsorized_values
                  /\ hh_df' = SetColumn(hh_df, <<"debt", "ratio", "winsorized">>,
                                  [i \in Idx(hh_df) |-> NaN])
    /\ pc' = "controls"
    /\ UNCHANGED <<load_vars, rewinsorized_values, final_df, final_df_model1,
                   final_df_model2, output_file>>

\* lines 382-408
PrepareControls ==
    /\ pc = "controls"
    /\ hh_df' = prepare_controls(hh_df)
    /\ pc' = "log_assets"
    /\ UNCHANGED <<load_vars, analysis_vars>>

\* line 412
LogTotalAssets ==
    /\ pc = "log_assets"
    /\ hh_df' = SetColumn(hh_df, <<"log", "total", "assets">>,
                     [i \in Idx(hh_df) |-> log_total_assets_of(hh_df.rows[i])])
    /\ pc' = "log_ratio"
    /\ UNCHANGED <<load_vars, analysis_vars>>

\* lines 416-423; debt_ratio_winsorized is a column after line 373 or 377.
LogDebtRatio ==
    /\ pc = "log_ratio"
    /\ hh_df' = SetColumn(hh_df, <<"log", "debt", "ratio", "winsorized">>,
                     [i \in Idx(hh_df) |->
                         IF <<"debt", "ratio", "winsorized">> \in hh_df.columns
                         THEN log_debt_ratio_winsorized_of(hh_df.rows[i])
                         ELSE NaN])
    /\ pc' = "final"
    /\ UNCHANGED <<load_vars, analysis_vars>>

\* lines 428-438
SelectFinalCols ==
    /\ pc = "final"
    /\ final_df' = select_columns(hh_df, existing_cols(final_analysis_cols, hh_df))
    /\ pc' = "deletion"
    /\ UNCHANGED <<load_vars, hh_df, debt_ratio_clean, winsorized_values,
                   rewinsorized_values, final_df_model1, final_df_model2, output_file>>

\* lines 475-491
ListwiseDeletion ==
    /\ pc = "deletion"
    /\ final_df_model1' = model1_of(final_df)
    /\ final_df_model2' = model2_of(final_df)
    /\ pc' = "regress"
    /\ UNCHANGED <<load_vars, hh_df, debt_ratio_clean, winsorized_values,
                   rewinsorized_values, final_df, output_file>>

\* lines 507-675: the five regressions and the summaries read
\* final_df_model1 and final_df_model2 and print; a failing fit is caught
\* (lines 535, 566, 601, 633, 656).
RunRegressions ==
    /\ pc = "regress"
    /\ pc' = "save"
    /\ UNCHANGED <<load_vars, hh_df, analysis_vars>>

\* lines 678-683: output_file_path (line 20) is a non-empty string.
SaveOutput ==
    /\ pc = "save"
    /\ output_file' = <<final_df>>
    /\ pc' = "done"
    /\ UNCHANGED <<load_vars, hh_df, debt_ratio_clean, winsorized_values,
                   rewinsorized_values, final_df, final_df_model1, final_df_model2>>

Next ==
    \/ AbortNoRelationVar
    \/ SelectHeads
    \/ AbortNoBirthYear
    \/ ComputeHeadAge
    \/ AgeFilter
    \/ ComputeSiblings
    \/ SelectHeadInfo
    \/ MergeHeadInfo
    \/ SynthesizeMissingCols
    \/ CoalesceDebt
    \/ CoalesceAsset
    \/ VehicleAdjust
    \/ ComputeTotals
    \/ ComputeDebtRatio
    \/ Winsorize
    \/ PrepareControls
    \/ LogTotalAssets
    \/ LogDebtRatio
    \/ SelectFinalCols
    \/ ListwiseDeletion
    \/ RunRegressions
    \/ SaveOutput

Spec == Init /\ [][Next]_vars

\* The script run on a population of households or on one respondent.
SpecAnalysis == InitAnalysis /\ [][Next]_vars

---------------------------------------------------------------------------
(* get_midpoint called directly on one (interval_code, var_name) *)

MaxCallCode == 16   \* interval codes -1..MaxCallCode in a direct call

\* Every field bound to a table, with and without a slot suffix, the catalog's
\* interval fields, and names that have no table: an exact field, a two
\* character suffix, an unknown field.
CallNames ==
    LET bound == UNION {vars_map1, vars_map2, vars_map3, vars_map4, vars_map5,
                        vars_map6, vars_map7, vars_map8, vars_map9, vars_map10,
                        vars_map11, vars_map12, vars_map13, vars_map14, vars_map15,
                        vars_map16, vars_map17, vars_map18, vars_map19, vars_map20,
                        vars_map21, vars_map22, vars_map23}
    IN bound \cup {n \o <<"1">> : n \in bound} \cup IntervalCols
       \cup {<<"c2064", "1">>, <<"c2064it", "10">>, <<"c2064it", "val">>,
             <<"x9999it">>, <<"x9999it", "1">>}

InitCall ==
    /\ pc = "call"
    /\ interval_code \in {NaN} \cup {<<c>> : c \in -1..MaxCallCode}
    /\ var_name \in CallNames
    /\ midpoint = NaN
    /\ ind_df = Empty
    /\ hh_df = Empty
    /\ heads_df = Empty
    /\ head_info_to_merge = Empty
    /\ coalesced_debt_vars = <<>>
    /\ coalesced_asset_vars = <<>>
    /\ debt_ratio_clean = <<>>
    /\ winsorized_values = <<>>
    /\ rewinsorized_values = <<>>
    /\ final_df = Empty
    /\ final_df_model1 = Empty
    /\ final_df_model2 = Empty
    /\ output_file = None

CallMidpoint ==
    /\ pc = "call"
    /\ midpoint' = get_midpoint(interval_code, var_name)
    /\ pc' = "returned"
    /\ UNCHANGED <<ind_df, hh_df, heads_df, head_info_to_merge, coalesced_debt_vars,
                   coalesced_asset_vars, interval_code, var_name>>
    /\ UNCHANGED analysis_vars

SpecMidpoint == InitCall /\ [][CallMidpoint]_vars

---------------------------------------------------------------------------
(* winsorize called directly on a column of debt ratios, and again on its
   result *)

MaxRatios == 200   \* longest column handed to winsorize

\* One value, a few, just below and at the first length that cuts a value
\* from each tail, and the longest column.
RatioLengths == {1, 2, 3, MaxRatios \div 2 - 1, MaxRatios \div 2, MaxRatios}

\* A column of n debt ratios: the first lo values are outliers below, each
\* further out than the one before, the last hi values are outliers above,
\* and the values between repeat a pattern of spread values.
RatioColumn(n, lo, hi, spread) ==
    [i \in 1..n |->
        IF i <= lo THEN ratio_div(-1000 * i, i % 2)
        ELSE IF i > n - hi THEN ratio_div(1000 * (n - i + 1), 1)
        ELSE ratio_div(i % spread, 2)]

RatioColumns ==
    {RatioColumn(n, lo, hi, spread) :
        n \in RatioLengths, lo \in 0..3, hi \in 0..3, spread \in {1, 3}}

InitWinsorize ==
    /\ pc = "winsorize_call"
    /\ debt_ratio_clean \in RatioColumns
    /\ winsorized_values = <<>>
    /\ rewinsorized_values = <<>>
    /\ ind_df = Empty
    /\ hh_df = Empty
    /\ heads_df = Empty
    /\ head_info_to_merge = Empty
    /\ coalesced_debt_vars = <<>>
    /\ coalesced_asset_vars = <<>>
    /\ interval_code = NaN
    /\ var_name = None
    /\ midpoint = NaN
    /\ final_df = Empty
    /\ final_df_model1 = Empty
    /\ final_df_model2 = Empty
    /\ output_file = None

\* line 372
CallWinsorize ==
    /\ pc = "winsorize_call"
    /\ winsorized_values' = winsorize(debt_ratio_clean)
    /\ pc' = "winsorized"
    /\ UNCHANGED <<load_vars, hh_df, debt_ratio_clean, rewinsorized_values, final_df,
                   final_df_model1, final_df_model2, output_file>>

\* line 372 once more, on the values it returned
CallWinsorizeAgain ==
    /\ pc = "winsorized"
    /\ rewinsorized_values' = winsorize(winsorized_values)
    /\ pc' = "rewinsorized"
    /\ UNCHANGED <<load_vars, hh_df, debt_ratio_clean, winsorized_values, final_df,
                   final_df_model1, final_df_model2, output_file>>

NextWinsorize == CallWinsorize \/ CallWinsorizeAgain

SpecWinsorize == InitWinsorize /\ [][NextWinsorize]_vars

---------------------------------------------------------------------------
(* Properties *)

CatalogExact == Range(all_debt_exact_vars) \cup Range(all_asset_exact_vars)

CatalogInterval == Range(all_debt_interval_vars) \cup Range(all_asset_interval_vars)

\* The script is past the debt ratio.
AfterRatio ==
    {"winsorize", "controls", "log_assets", "log_ratio", "final", "deletion",
     "regress", "save", "done"}

\* The script is past both coalesce loops.
Coalesced == pc \in {"vehicle", "totals", "debt_ratio"} \cup AfterRatio

HouseholdRows == {hh_df.rows[k] : k \in 1..Len(hh_df.rows)}

\* C1: for every catalog concept and every household, <exact>_val is the
\* exact value when present, otherwise the midpoint of the interval field
\* of the SAME concept, and the exact value as-is (NaN staying NaN) for a
\* concept that has no interval field.
C1_FallbackFromOwnInterval ==
    Coalesced =>
        \A row \in HouseholdRows : \A e \in CatalogExact :
            row[val_col(e)] =
                IF ~isna(row[e]) THEN row[e]
                ELSE IF own_interval(e) \in CatalogInterval
                THEN get_midpoint(row[own_interval(e)], own_interval(e))
                ELSE NaN

\* The (exact, interval) pairs the coalesce loops form: same index in the
\* exact list and in the interval list.
CoalescerPairs ==
    {<<all_debt_exact_vars[i], all_debt_interval_vars[i]>> :
        i \in 1..Len(all_debt_interval_vars)}
    \cup {<<all_asset_exact_vars[i], all_asset_interval_vars[i]>> :
        i \in 1..Len(all_asset_interval_vars)}

\* C2: where the exact value and the interval code the coalescer pairs with
\* it are both present, the coalesced value is the exact value.
C2_ExactDominates ==
    Coalesced =>
        \A row \in HouseholdRows : \A p \in CoalescerPairs :
            (~isna(row[p[1]]) /\ ~isna(row[p[2]])) => row[val_col(p[1])] = row[p[1]]

\* Both present, and the interval code resolves to a midpoint that differs
\* from the exact value.
C2_Witness ==
    /\ Coalesced
    /\ \E row \in HouseholdRows : \E p \in CoalescerPairs :
          /\ ~isna(row[p[1]])
          /\ ~isna(get_midpoint(row[p[2]], p[2]))
          /\ get_midpoint(row[p[2]], p[2]) # row[p[1]]
          /\ row[val_col(p[1])] = row[p[1]]

\* The bracket tables and the fields each is bound to, lines 155-252.
BracketTables ==
    << <<vars_map1, map1>>, <<vars_map2, map2>>, <<vars_map3, map3>>,
       <<vars_map4, map4>>, <<vars_map5, map5>>, <<vars_map6, map6>>,
       <<vars_map7, map7>>, <<vars_map8, map8>>, <<vars_map9, map9>>,
       <<vars_map10, map10>>, <<vars_map11, map11>>, <<vars_map12, map12>>,
       <<vars_map13, map13>>, <<vars_map14, map14>>, <<vars_map15, map15>>,
       <<vars_map16, map16>>, <<vars_map17, map17>>, <<vars_map18, map18>>,
       <<vars_map19, map19>>, <<vars_map20, map20>>, <<vars_map21, map21>>,
       <<vars_map22, map22>>, <<vars_map23, map23>> >>

\* The tables the field is bound to after its slot suffix is stripped.
TablesOf(name) ==
    {i \in 1..Len(BracketTables) : base_var_name(name) \in BracketTables[i][1]}

\* The code is a key of some table the field is bound to.
IsKey(code, name) ==
    /\ ~isna(code)
    /\ \E i \in TablesOf(name) : code[1] \in DOMAIN BracketTables[i][2]

\* C3: get_midpoint returns NaN (not 0, not another bracket's value) when
\* the code is missing, the normalized field has no bracket table, or the
\* code is not a key of the field's table.
C3_UnmappedIsMissing ==
    pc = "returned" => (~IsKey(interval_code, var_name) => midpoint = NaN)

\* The gap code 4 of f4005it, whose neighbours 3 and 5 are keys.
C3_Witness ==
    /\ pc = "returned"
    /\ var_name = <<"f4005it">>
    /\ interval_code = <<4>>
    /\ IsKey(<<3>>, var_name) /\ IsKey(<<5>>, var_name)
    /\ midpoint = NaN

\* C4: every interval field of the catalog (and c7062it) is bound to
\* exactly one bracket table, so a key of that table resolves to a value.
C4_CatalogFieldsBound ==
    (pc = "returned" /\ var_name \in IntervalCols) =>
        /\ Cardinality(TablesOf(var_name)) = 1
        /\ IsKey(interval_code, var_name) => midpoint # NaN

\* The script is past the totals.
Totalled == pc \in {"debt_ratio"} \cup AfterRatio

\* C5: debt_ratio is 0 when total_debt = 0 and total_assets = 0, missing
\* when total_debt > 0 and total_assets = 0, and otherwise finite and
\* non-negative, whatever the household's raw values.
C5_DebtRatioCases ==
    pc = "winsorize" =>
        \A row \in HouseholdRows :
            LET d == row[<<"total", "debt">>][1]
                a == row[<<"total", "assets">>][1]
                r == row[<<"debt", "ratio">>]
            IN IF d = 0 /\ a = 0 THEN r = <<ratio_zero>>
               ELSE IF d > 0 /\ a = 0 THEN r = NaN
               ELSE r # NaN /\ r[1].num >= 0 /\ r[1].den >= 0

\* C6: total_assets is never missing and never negative: it is
\* max(total_assets_raw - vehicle adjustment, 0), a missing adjustment
\* counting as 0.
C6_TotalAssetsFloored ==
    Totalled =>
        \A row \in HouseholdRows :
            LET raw == row[<<"total", "assets", "raw">>][1]
                adj == IF isna(row[vehicle_adj_val_col]) THEN 0
                       ELSE row[vehicle_adj_val_col][1]
                t == row[<<"total", "assets">>]
            IN /\ t # NaN
               /\ t[1] >= 0
               /\ t[1] = (IF raw - adj >= 0 THEN raw - adj ELSE 0)

\* The adjustment exceeds the assets and the floor applies.
C6_Witness ==
    /\ Totalled
    /\ \E row \in HouseholdRows :
          /\ ~isna(row[vehicle_adj_val_col])
          /\ row[<<"total", "assets", "raw">>][1] - row[vehicle_adj_val_col][1] < 0
          /\ row[<<"total", "assets">>] = <<0>>

\* Individual k's cell, NaN when the table lacks the column.
IndCell(k, col) == IF col \in ind_df.columns THEN ind_df.rows[k][col] ELSE NaN

\* Individual k's age in 2017.
AgeOf(k) ==
    IF isna(IndCell(k, <<"a2005">>)) THEN NaN
    ELSE <<2017 - IndCell(k, <<"a2005">>)[1]>>

\* The individuals of household h carrying relationship code 1.
Respondents(h) ==
    {k \in 1..Len(ind_df.rows) :
        IndCell(k, <<"hhid">>) = h /\ IndCell(k, <<"a2001">>) = <<1>>}

\* Those of them aged 16 or more.
ValidRespondents(h) ==
    {k \in Respondents(h) : ~isna(AgeOf(k)) /\ AgeOf(k)[1] >= 16}

First(S) == CHOOSE k \in S : \A j \in S : k <= j

\* The script is past the join of line 92.
JoinedAt ==
    {"synthesize", "coalesce_debt", "coalesce_asset", "vehicle", "totals",
     "debt_ratio"} \cup AfterRatio

Joined == pc \in JoinedAt

\* C7 as stated: for a household with several respondents the proxy is the
\* first of them in row order, whatever their ages.
C7_FirstRespondentRetained ==
    Joined =>
        \A row \in HouseholdRows :
            LET R == Respondents(row[<<"hhid">>])
            IN Cardinality(R) > 1 =>
                  /\ row[<<"head", "age">>] = AgeOf(First(R))
                  /\ row[<<"head", "educ">>] = IndCell(First(R), <<"a2012">>)

\* C7 amended: for a household with several respondents the proxy is the
\* first respondent, in row order, whose age is known and at least 16; when
\* there is none the household has no proxy.
C7_FirstValidRespondentRetained ==
    Joined =>
        \A row \in HouseholdRows :
            LET R == Respondents(row[<<"hhid">>])
                V == ValidRespondents(row[<<"hhid">>])
            IN Cardinality(R) > 1 =>
                  IF V = {}
                  THEN /\ row[<<"head", "age">>] = NaN
                       /\ row[<<"head", "educ">>] = NaN
                  ELSE /\ row[<<"head", "age">>] = AgeOf(First(V))
                       /\ row[<<"head", "educ">>] = IndCell(First(V), <<"a2012">>)

\* Two respondents, the first below 16, the second retained.
C7_Witness ==
    /\ Joined
    /\ \E row \in HouseholdRows :
          LET R == Respondents(row[<<"hhid">>])
              V == ValidRespondents(row[<<"hhid">>])
          IN /\ Cardinality(R) > 1
             /\ V # {}
             /\ First(R) \notin V
             /\ row[<<"head", "educ">>] = IndCell(First(V), <<"a2012">>)

\* C8: the retained proxy's head_siblings is missing when its age is above
\* 40 and is brothers + sisters, a missing count taken as 0, when its age
\* is at most 40.
C8_SiblingCount ==
    Joined =>
        \A row \in HouseholdRows :
            LET V == ValidRespondents(row[<<"hhid">>])
                k == First(V)
                brothers == IndCell(k, <<"a2028">>)
                sisters == IndCell(k, <<"a2029">>)
            IN V # {} =>
                  IF AgeOf(k)[1] > 40
                  THEN row[<<"head", "siblings">>] = NaN
                  ELSE row[<<"head", "siblings">>] =
                           <<(IF isna(brothers) THEN 0 ELSE brothers[1])
                             + (IF isna(sisters) THEN 0 ELSE sisters[1])>>

\* A proxy aged 40 with both counts missing has 0 siblings.
C8_Witness ==
    /\ Joined
    /\ \E row \in HouseholdRows :
          LET V == ValidRespondents(row[<<"hhid">>])
          IN /\ V # {}
             /\ AgeOf(First(V)) = <<40>>
             /\ isna(IndCell(First(V), <<"a2028">>))
             /\ isna(IndCell(First(V), <<"a2029">>))
             /\ row[<<"head", "siblings">>] = <<0>>

\* C9: respondents below 16 are removed before the deduplication and the
\* join, so no household carries a head_age below 16.
C9_NoHeadBelow16 ==
    /\ pc \in {"siblings", "select", "merge"} \cup JoinedAt =>
          \A i \in Idx(heads_df) :
              /\ ~isna(heads_df.rows[i][<<"head", "age">>])
              /\ heads_df.rows[i][<<"head", "age">>][1] >= 16
    /\ Joined =>
          \A row \in HouseholdRows :
              isna(row[<<"head", "age">>]) \/ row[<<"head", "age">>][1] >= 16

\* A respondent aged below 16 was in the table and the join is done.
C9_Witness ==
    /\ Joined
    /\ \E row \in HouseholdRows :
          /\ \E k \in Respondents(row[<<"hhid">>]) :
                ~isna(AgeOf(k)) /\ AgeOf(k)[1] < 16
          /\ ValidRespondents(row[<<"hhid">>]) = {}
          /\ isna(row[<<"head", "age">>])

ProxyAttributes ==
    {<<"head", "age">>, <<"head", "sex">>, <<"head", "educ">>, <<"head", "marital">>,
     <<"head", "health">>, <<"head", "siblings">>}

\* C10: the join keeps every household row exactly once, in place and with
\* its cells, and a household without a retained proxy has every proxy
\* attribute missing.
C10_JoinKeepsHouseholds ==
    [][pc = "merge" =>
         /\ Len(hh_df'.rows) = Len(hh_df.rows)
         /\ \A i \in Idx(hh_df) :
               /\ \A c \in hh_df.columns : hh_df'.rows[i][c] = hh_df.rows[i][c]
               /\ ValidRespondents(hh_df.rows[i][<<"hhid">>]) = {} =>
                     \A a \in ProxyAttributes :
                         a \in hh_df'.columns => isna(hh_df'.rows[i][a])]_vars

\* The join is done over a household with several retained-age respondents
\* and a household with none.
C10_Witness ==
    /\ pc = "synthesize"
    /\ Len(hh_df.rows) = NumHH
    /\ \E row \in HouseholdRows :
          Cardinality(ValidRespondents(row[<<"hhid">>])) > 1
    /\ \E row \in HouseholdRows :
          /\ ValidRespondents(row[<<"hhid">>]) = {}
          /\ \A a \in ProxyAttributes : isna(row[a])


\* C11: winsorizing the finite, non-missing debt ratios at limits (1%, 1%)
\* is idempotent: winsorizing the winsorized column again changes no value.
C11_WinsorizeIdempotent ==
    pc = "rewinsorized" => rewinsorized_values = winsorized_values

\* A column long enough for both tails to be cut was winsorized twice, and
\* the first pass raised a value and lowered another.
C11_Witness ==
    /\ pc = "rewinsorized"
    /\ tail_count(limits[1], Len(debt_ratio_clean)) > 0
    /\ \E i \in DOMAIN debt_ratio_clean :
          ratio_lt(debt_ratio_clean[i], winsorized_values[i])
    /\ \E i \in DOMAIN debt_ratio_clean :
          ratio_lt(winsorized_values[i], debt_ratio_clean[i])


\* The columns the output table is said to hold.
OutputColumns ==
    {<<"hhid">>, <<"head", "age">>, <<"head", "is", "male">>, <<"head", "educ">>,
     <<"head", "is", "married">>, <<"head", "health">>, <<"head", "siblings">>,
     <<"has", "business">>, <<"num", "houses">>, <<"log", "total", "assets">>,
     <<"total", "debt">>, <<"total", "assets">>, <<"debt", "ratio">>,
     <<"debt", "ratio", "winsorized">>, <<"log", "debt", "ratio", "winsorized">>}

\* The final table exists.
Selected == pc \in {"deletion", "regress", "save", "done"}

\* C12: the table handed to the regressions and saved holds, for every
\* household, the identifier, the six head-proxy controls, the three
\* household controls, total debt, total assets, the debt ratio, the
\* winsorized debt ratio and the log-winsorized debt ratio.
C12_OutputColumns ==
    /\ Selected =>
          /\ OutputColumns \subseteq final_df.columns
          /\ Len(final_df.rows) = Len(hh_df.rows)
    /\ pc = "done" =>
          /\ output_file # None
          /\ OutputColumns \subseteq output_file[1].columns
          /\ Len(output_file[1].rows) = Len(hh_df.rows)


\* The log-transformed ratio is computed.
Transformed == pc \in {"final", "deletion", "regress", "save", "done"}

\* C13: a household with total_debt = 0 and total_assets = 0 has debt_ratio
\* 0 and a log_debt_ratio_winsorized that is not missing, whatever the debt
\* ratios of the other households of the table.
C13_ZeroHouseholdLogDefined ==
    Transformed =>
        \A row \in HouseholdRows :
            (row[<<"total", "debt">>] = <<0>> /\ row[<<"total", "assets">>] = <<0>>) =>
                /\ row[<<"debt", "ratio">>] = <<ratio_zero>>
                /\ ~isna(row[<<"log", "debt", "ratio", "winsorized">>])


\* The coalesced value of a concept as the claims state it: the exact value,
\* else the midpoint of the interval field of the same concept, when the
\* catalog has one.
OwnCoalesced(row, exact) ==
    IF own_interval(exact) \in CatalogInterval
    THEN combine_first(row[exact],
                       get_midpoint(row[own_interval(exact)], own_interval(exact)))
    ELSE row[exact]

\* The sum of the coalesced values of the concepts exact_vars[i..], missing
\* counted as 0.
RECURSIVE OwnSum(_, _, _)
OwnSum(row, exact_vars, i) ==
    IF i > Len(exact_vars) THEN 0
    ELSE fillna0(OwnCoalesced(row, exact_vars[i]))[1] + OwnSum(row, exact_vars, i + 1)

\* C14: total_debt is the sum over the debt concepts of the coalesced value
\* (exact, else the midpoint of the concept's own interval field, missing
\* as 0), total_assets is that sum over the asset concepts minus the
\* vehicle adjustment (floored at 0), and debt_ratio is total_debt /
\* total_assets when total_assets > 0.
C14_TotalsFromOwnConcepts ==
    /\ Totalled =>
          \A row \in HouseholdRows :
              /\ row[<<"total", "debt">>] = <<OwnSum(row, all_debt_exact_vars, 1)>>
              /\ row[<<"total", "assets">>] =
                     <<max0(OwnSum(row, all_asset_exact_vars, 1)
                            - fillna0(row[vehicle_adj_val_col])[1])>>
    /\ pc \in AfterRatio =>
          \A row \in HouseholdRows :
              row[<<"total", "assets">>][1] > 0 =>
                  row[<<"debt", "ratio">>] =
                      <<ratio_div(OwnSum(row, all_debt_exact_vars, 1),
                                  row[<<"total", "assets">>][1])>>


\* The regression subsets exist.
Deleted == pc \in {"regress", "save", "done"}

\* The households, by identifier, that are rows of a table.
HouseholdsOf(df) == {df.rows[k][<<"hhid">>] : k \in 1..Len(df.rows)}

\* The households with total_debt > 0 and total_assets = 0.
InfiniteRatioRows ==
    {row \in HouseholdRows :
        row[<<"total", "debt">>][1] > 0 /\ row[<<"total", "assets">>][1] = 0}

\* C15: a household with total_debt > 0 and total_assets = 0 has a missing
\* debt_ratio, debt_ratio_winsorized and log_debt_ratio_winsorized, is in
\* neither regression subset, and is a row of the saved table.
C15_InfiniteRatioExcluded ==
    /\ pc \in AfterRatio =>
          \A row \in InfiniteRatioRows : isna(row[<<"debt", "ratio">>])
    /\ pc \in AfterRatio \ {"winsorize"} =>
          \A row \in InfiniteRatioRows : isna(row[<<"debt", "ratio", "winsorized">>])
    /\ Transformed =>
          \A row \in InfiniteRatioRows :
              isna(row[<<"log", "debt", "ratio", "winsorized">>])
    /\ Deleted =>
          \A row \in InfiniteRatioRows :
              /\ row[<<"hhid">>] \notin HouseholdsOf(final_df_model1)
              /\ row[<<"hhid">>] \notin HouseholdsOf(final_df_model2)
    /\ pc = "done" =>
          /\ output_file # None
          /\ \A row \in InfiniteRatioRows :
                row[<<"hhid">>] \in HouseholdsOf(output_file[1])

\* The table is saved; it holds households with debt and no assets, while
\* another household, with a finite ratio, is in both regression subsets.
C15_Witness ==
    /\ pc = "done"
    /\ InfiniteRatioRows # {}
    /\ final_df_model1.rows # <<>>
    /\ final_df_model2.rows # <<>>
    /\ \E row \in InfiniteRatioRows : row[<<"hhid">>] \in HouseholdsOf(output_file[1])


\* The columns the steps after the load derive.
DerivedColumns ==
    ProxyAttributes \cup {val_col(e) : e \in ExactCols}
    \cup {<<"total", "debt">>, <<"total", "assets", "raw">>, <<"total", "assets">>,
          <<"debt", "ratio">>, <<"debt", "ratio", "winsorized">>}
    \cup (Range(final_analysis_cols) \ {<<"hhid">>})

\* C16: when the individual table has no relationship-code field (a2001)
\* the run aborts at once: the only step taken is the exit, which changes
\* no table, so no head proxy is extracted, nothing is joined, aggregated
\* or regressed, and no output table is written.
C16_AbortWithoutRelationVar ==
    /\ [](<<"a2001">> \notin ind_df.columns =>
            /\ pc \in {"start", "exit"}
            /\ heads_df = Empty
            /\ head_info_to_merge = Empty
            /\ hh_df.columns \cap DerivedColumns = {}
            /\ final_df = Empty
            /\ final_df_model1 = Empty
            /\ final_df_model2 = Empty
            /\ output_file = None)
    /\ [][<<"a2001">> \notin ind_df.columns =>
            /\ pc' = "exit"
            /\ UNCHANGED <<load_vars, hh_df, analysis_vars>>]_vars

\* The run has ended at the exit for a table of one respondent without the
\* relationship-code field.
C16_Witness ==
    /\ pc = "exit"
    /\ <<"a2001">> \notin ind_df.columns
    /\ <<"a2005">> \in ind_df.columns
    /\ ind_df.rows # <<>>
    /\ output_file = None


\* The raw fields of the household table: the exact and interval fields of
\* the catalog and of the vehicle adjustment.
RawFields == ExactCols \cup IntervalCols

\* C17: no step overwrites a raw field: an exact or interval field that is
\* a column of the household table before a step is a column after it and
\* holds, for every household, the value it held; derived values go to
\* other columns.
C17_RawFieldsKept ==
    [][/\ Len(hh_df'.rows) = Len(hh_df.rows)
       /\ \A c \in RawFields \cap hh_df.columns :
             /\ c \in hh_df'.columns
             /\ \A i \in Idx(hh_df) : hh_df'.rows[i][c] = hh_df.rows[i][c]]_vars

\* The run is complete for a household whose exact field is still missing
\* while its coalesced column holds a midpoint, next to an exact field and
\* an interval field that hold their answers.
C17_Witness ==
    /\ pc = "done"
    /\ \E row \in HouseholdRows :
          /\ \E e \in CatalogExact : isna(row[e]) /\ ~isna(row[val_col(e)])
          /\ \E e \in CatalogExact : ~isna(row[e])
          /\ \E t \in CatalogInterval : ~isna(row[t])


\* The rows of the two regression subsets.
RegressionRows ==
    {final_df_model1.rows[k] : k \in 1..Len(final_df_model1.rows)}
    \cup {final_df_model2.rows[k] : k \in 1..Len(final_df_model2.rows)}

\* C18: every household of either regression subset has a head proxy aged
\* 16 to 40: head_siblings is missing above 40 and for a household without
\* proxy, and the listwise deletion requires it.
C18_RegressionAges ==
    Deleted =>
        \A r \in RegressionRows :
            /\ ~isna(r[<<"head", "age">>])
            /\ r[<<"head", "age">>][1] >= 16
            /\ r[<<"head", "age">>][1] <= 40
            /\ ~isna(r[<<"head", "siblings">>])
            /\ \E k \in ValidRespondents(r[<<"hhid">>]) : AgeOf(k) = r[<<"head", "age">>]

\* The subsets are cut: a household whose proxy is 40 is in both, and a
\* household without proxy is in the final table and in neither.
C18_Witness ==
    /\ Deleted
    /\ \E r \in {final_df_model1.rows[k] : k \in 1..Len(final_df_model1.rows)} :
          r[<<"head", "age">>] = <<40>>
    /\ \E r \in {final_df_model2.rows[k] : k \in 1..Len(final_df_model2.rows)} :
          r[<<"head", "age">>] = <<40>>
    /\ \E k \in 1..Len(final_df.rows) :
          /\ isna(final_df.rows[k][<<"head", "age">>])
          /\ final_df.rows[k][<<"hhid">>] \notin
                 {r[<<"hhid">>] : r \in RegressionRows}

=============================================================================
